---- MODULE Spec2Model ----
(***************************************************************************)
(* DATAGerry object routes: create, versioning on update, activation      *)
(* change, structural repair, backward references, location-aware deletes. *)
(* The store (objects, locations, links, references) is the state; every  *)
(* REST handler of objects_routes.py is one action that runs the whole     *)
(* handler and leaves its response in resp and its store I/O, in order,    *)
(* in io. Concurrent updates are the one exception: there a request is a   *)
(* read step and a write step of a worker.                                 *)
(***************************************************************************)
EXTENDS Integers, Sequences, FiniteSets, TLC

VARIABLES
    objs,   \* object collection: public_id -> [type_id, fields, version, active]
    locs,   \* location collection: public_id -> [parent, object_id]
    links,  \* object link collection: set of [public_id, primary, secondary]
    refs,   \* reference field values: set of <<referencing object, referenced object>>
    resp,   \* response of the request being answered
    io,     \* store and log calls of that request, in call order
    before, \* the store as that request found it
    workers, \* the requests in flight when requests run concurrently
    users,  \* user collection: public_id -> [user_name]
    check_status  \* CheckRoutine.status

vars == <<objs, locs, links, refs, resp, io, before, workers, users, check_status>>

(* ------------------------------ bounds -------------------------------- *)

\* largest number of fields of a type
MaxFields == 4
\* an object is updated only while every component of its version is <= MaxVer
MaxVer == 1
\* concurrent requests: a request is taken while fewer than MaxCalls calls of
\* the requests in flight are on record
MaxCalls == 5

(* ------------------------------ helpers ------------------------------- *)

NoValue == "none"

\* the request worker processes, and a worker that handles no request
Workers == {1, 2}

IdleWorker == [pc |-> "idle"]

NoWorkers == [w \in Workers |-> IdleWorker]

\* the user collection of a fresh installation: the admin account
AdminOnly == [public_id \in {1} |-> [user_name |-> "admin"]]

SeqToSet(s) == {s[i] : i \in 1..Len(s)}

Restrict(f, S) == [x \in S |-> f[x]]


(* ------------------------------- types -------------------------------- *)

\* Type t has the fields named 1..(t-1); type 1 has no field.
TypeIds == 1..(MaxFields + 1)

TypeFieldNames(t) == 1..(t - 1)

FieldValues == {0, 1}

\* the default value Render fills in for a type field the object lacks
DefaultValue == 0

(* ------------------------- Diff & Version policy ---------------------- *)

VERSIONING_MAJOR == "major"
VERSIONING_MINOR == "minor"
VERSIONING_PATCH == "patch"

\* CmdbDAO.update_version: x.y.z -> (x+1).0.0 | x.(y+1).0 | x.y.(z+1)
update_version(version, update) ==
    CASE update = VERSIONING_MAJOR -> <<version[1] + 1, 0, 0>>
      [] update = VERSIONING_MINOR -> <<version[1], version[2] + 1, 0>>
      [] OTHER                     -> <<version[1], version[2], version[3] + 1>>

\* CmdbObject.__truediv__ 'new': the fields of the updated object that are
\* not fields (same name and value) of the stored object
ChangesNew(current_fields, update_fields) ==
    {name \in DOMAIN update_fields :
        \/ name \notin DOMAIN current_fields
        \/ current_fields[name] # update_fields[name]}

MinorThresholdInclusive(changed, total) == 2 * changed >= total

\* objects_routes.py line 544: len(changes['new']) > len(fields) / 2, a true
\* division, so the comparison is 2 * changed > total
MinorThreshold(changed, total) == 2 * changed > total

BumpTierMajorFirst(changed, total) ==
    IF changed = total THEN VERSIONING_MAJOR
    ELSE IF changed = 1 THEN VERSIONING_PATCH
    ELSE IF MinorThreshold(changed, total) THEN VERSIONING_MINOR
    ELSE VERSIONING_PATCH

\* objects_routes.py lines 540-547: which part of the version is bumped
BumpTier(changed, total) ==
    IF changed = 1 THEN VERSIONING_PATCH
    ELSE IF changed = total THEN VERSIONING_MAJOR
    ELSE IF MinorThreshold(changed, total) THEN VERSIONING_MINOR
    ELSE VERSIONING_PATCH

(* ------------------------------ rendering ----------------------------- *)

\* CmdbRender(...).result().fields: every type field with the stored value or
\* the default, and the object's own extra fields
RenderFields(obj) ==
    [name \in TypeFieldNames(obj.type_id) \cup DOMAIN obj.fields |->
        IF name \in DOMAIN obj.fields THEN obj.fields[name] ELSE DefaultValue]

(* --------------------------- update_object ---------------------------- *)

ObjIds == {1, 2}

\* what the collaborators of one loop pass can do besides succeeding
UpdateFailKinds ==
    {"read_denied", "type_missing", "render_error", "type_error",
     "update_denied", "update_error", "log_error"}

NoFail == [at |-> 0, kind |-> "ok"]

Outcome(fail, i) == IF fail.at = i THEN fail.kind ELSE "ok"

UpdateFailed(acc, obj_id, status) ==
    [acc EXCEPT !.failed = Append(@, [public_id |-> obj_id, status |-> status])]

EditEventsLogFirst(obj_id, version, outcome) ==
    << (IF outcome = "log_error" THEN <<"log_raised", "EDIT", obj_id>>
        ELSE <<"log", "EDIT", obj_id>>),
       <<"write", obj_id, version>> >>

\* objects_routes.py lines 549-565: manager.update, then the EDIT log; a
\* ManagerInsertError of insert_log is only logged
EditEvents(obj_id, version, outcome) ==
    << <<"write", obj_id, version>>,
       (IF outcome = "log_error" THEN <<"log_raised", "EDIT", obj_id>>
        ELSE <<"log", "EDIT", obj_id>>) >>

\* objects_routes.py lines 488-584: one pass of the loop over object_ids
UpdateItem(acc, obj_id, data, outcome) ==
    LET read == [acc EXCEPT !.io = Append(@, <<"read", obj_id>>)] IN
    \* manager.get: ObjectManagerGetError -> failed, AccessDeniedError -> abort(403)
    IF obj_id \notin DOMAIN acc.objs THEN UpdateFailed(read, obj_id, 400)
    ELSE IF outcome = "read_denied" THEN [read EXCEPT !.status = 403]
    \* type_manager.get: ManagerGetError; CmdbRender: RenderError
    ELSE IF outcome = "type_missing" \/ acc.objs[obj_id].type_id \notin TypeIds
         THEN UpdateFailed(read, obj_id, 404)
    ELSE IF outcome = "render_error" THEN UpdateFailed(read, obj_id, 500)
    \* TypeError while the new data is put together
    ELSE IF outcome = "type_error" THEN UpdateFailed(read, obj_id, 400)
    ELSE
        LET current == acc.objs[obj_id]
            \* lines 510-517: the rendered fields, overwritten by name from the request
            new_fields == [name \in DOMAIN RenderFields(current) |->
                              IF name \in DOMAIN data.fields THEN data.fields[name]
                              ELSE RenderFields(current)[name]]
            \* line 538: changes = current_object_instance / update_object_instance
            changed == Cardinality(ChangesNew(current.fields, new_fields))
            total == Cardinality(DOMAIN new_fields)
            \* lines 507-508: the request's version, when it carries one
            base == IF data.has_version THEN data.version ELSE current.version
            version == update_version(base, BumpTier(changed, total))
            \* line 505: the request's active flag, when it carries one
            active == IF data.active = NoValue THEN current.active ELSE data.active = "true"
            diffed == [read EXCEPT !.io = Append(@, <<"diff", obj_id, changed, total, base>>)]
        IN  \* line 549: manager.update
            IF outcome = "update_denied"
            THEN [diffed EXCEPT !.status = 403,
                                !.io = Append(@, <<"write_raised", obj_id>>)]
            ELSE IF outcome = "update_error"
            THEN UpdateFailed([diffed EXCEPT !.io = Append(@, <<"write_raised", obj_id>>)],
                              obj_id, 404)
            ELSE [diffed EXCEPT
                    !.objs[obj_id] = [current EXCEPT !.fields = new_fields,
                                                     !.version = version,
                                                     !.active = active],
                    !.results = Append(@, [public_id |-> obj_id, version |-> version]),
                    !.io = @ \o EditEvents(obj_id, version, outcome)]

RECURSIVE UpdateLoop(_, _, _, _, _)
\* objects_routes.py lines 488-584: the loop; abort(403) leaves it at once
UpdateLoop(acc, object_ids, i, data, fail) ==
    IF i > Len(object_ids) \/ acc.status # 200 THEN acc
    ELSE UpdateLoop(UpdateItem(acc, object_ids[i], data, Outcome(fail, i)),
                    object_ids, i + 1, data, fail)

\* no request is being handled: the previous response has been returned
Idle == resp.op = "none" /\ io = <<>>

\* the handler returns: the response goes to the client and the worker takes
\* the next request
return_response ==
    /\ ~Idle
    /\ resp' = [op |-> "none", ids |-> <<>>, status |-> 200, results |-> <<>>, failed |-> <<>>,
                named |-> {}]
    /\ io' = <<>>
    /\ before' = [objs |-> << >>, locs |-> << >>, links |-> {}, refs |-> {}]
    /\ UNCHANGED <<objs, locs, links, refs, workers, users, check_status>>

VersionCapped(version) == \A k \in 1..3 : version[k] <= MaxVer

\* objects_routes.py lines 476-587: PUT /objects/<public_id>[?objectIDs=...]
update_object(object_ids, data, fail) ==
    /\ Idle
    /\ \A id \in SeqToSet(object_ids) \cap DOMAIN objs : VersionCapped(objs[id].version)
    /\ LET done == UpdateLoop([objs |-> objs, results |-> <<>>, failed |-> <<>>,
                               io |-> <<>>, status |-> 200],
                              object_ids, 1, data, fail)
       IN  /\ objs' = done.objs
           /\ io' = done.io
           /\ before' = [objs |-> objs, locs |-> locs, links |-> links, refs |-> refs]
           /\ resp' = IF done.status = 200
                      THEN [op |-> "update_object", ids |-> object_ids, status |-> 200,
                            results |-> done.results, failed |-> done.failed,
                            named |-> {e.public_id : e \in SeqToSet(done.results)
                                                          \cup SeqToSet(done.failed)}]
                      ELSE [op |-> "update_object", ids |-> object_ids, status |-> done.status,
                            results |-> <<>>, failed |-> <<>>, named |-> {}]
    /\ UNCHANGED <<locs, links, refs, workers, users, check_status>>

InitialVersion == <<1, 0, 0>>

NewObject(t, names) ==
    [type_id |-> t, fields |-> [name \in names |-> DefaultValue],
     version |-> InitialVersion, active |-> TRUE]

NoBefore == [objs |-> << >>, locs |-> << >>, links |-> {}, refs |-> {}]

NoResponse == [op |-> "none", ids |-> <<>>, status |-> 200, results |-> <<>>, failed |-> <<>>,
               named |-> {}]

\* Object 1 alone, of any type, holding all fields of its type or lacking the last one
InitVersion ==
    /\ \E t \in TypeIds : \E names \in {TypeFieldNames(t), TypeFieldNames(t) \ {t - 1}} :
          objs = [id \in {1} |-> NewObject(t, names)]
    /\ locs = << >> /\ links = {} /\ refs = {}
    /\ resp = NoResponse /\ io = <<>> /\ before = NoBefore /\ workers = NoWorkers
    /\ users = AdminOnly /\ check_status = "NOT"

\* the fields a request can carry: any field names of a type, all given one value
RequestFields == UNION {[names -> {v}] : names \in SUBSET (1..MaxFields), v \in FieldValues}

\* the request body: fields, an optional version, an optional active flag
RequestData(fields, has_version, active) ==
    [fields |-> fields, has_version |-> has_version, version |-> InitialVersion,
     active |-> active]

NextVersion ==
    \/ \E fields \in RequestFields, has_version \in BOOLEAN :
          update_object(<<1>>, RequestData(fields, has_version, NoValue), NoFail)
    \/ return_response

SpecVersion == InitVersion /\ [][NextVersion]_vars

(* ------------------------ multi-update requests ----------------------- *)

\* an identifier no object has
MissingId == 3

\* the types of the objects of a multi-update: no field, one field
BatchTypeIds == {1, 2}

\* Objects 1 and 2 of one type
InitBatch ==
    /\ \E t \in BatchTypeIds : objs = [id \in ObjIds |-> NewObject(t, TypeFieldNames(t))]
    /\ locs = << >> /\ links = {} /\ refs = {}
    /\ resp = NoResponse /\ io = <<>> /\ before = NoBefore /\ workers = NoWorkers
    /\ users = AdminOnly /\ check_status = "NOT"

\* the objectIDs lists of the requests: one or two identifiers, in either
\* order, with and without an identifier that does not exist, and a repeated one
BatchIdLists ==
    {<<1>>, <<MissingId>>, <<1, 2>>, <<2, 1>>, <<1, MissingId>>, <<MissingId, 1>>, <<2, 2>>}

\* the fields of a multi-update: none, or the one field with either value
BatchFields == UNION {[names -> FieldValues] : names \in SUBSET {1}}

\* at most one pass of a request meets a failing collaborator
BatchFails(object_ids) ==
    {NoFail} \cup [at : 1..Len(object_ids), kind : UpdateFailKinds]

NextBatch ==
    \/ \E object_ids \in BatchIdLists, fields \in BatchFields, has_version \in BOOLEAN,
          active \in {NoValue, "true", "false"} :
          \E fail \in BatchFails(object_ids) :
              update_object(object_ids, RequestData(fields, has_version, active), fail)
    \/ return_response

SpecBatch == InitBatch /\ [][NextBatch]_vars

(* ============================ deletes ================================= *)

\* number of objects of an initial store
MaxObj == 3

RootLocation == 1

\* the root location: no parent, no object
RootRecord == [parent |-> 0, object_id |-> 0]

\* the object of the initial stores with identifier o has location o + 1, if any
LocationIdOf(o) == o + 1

\* ascending enumeration of a finite set of integers (sort='public_id', order=1)
RECURSIVE SortedSeq(_)
SortedSeq(S) ==
    IF S = {} THEN <<>>
    ELSE LET m == CHOOSE x \in S : \A y \in S : x <= y
         IN  <<m>> \o SortedSeq(S \ {m})

\* locations_manager.iterate($match public_id > 2): the off-by-one snapshot
AllLocationsAboveTwo(locations) ==
    LET ids == SortedSeq({l \in DOMAIN locations : l > 2})
    IN  [i \in 1..Len(ids) |-> [public_id |-> ids[i], parent |-> locations[ids[i]].parent,
                                 object_id |-> locations[ids[i]].object_id]]

\* objects_routes.py lines 875-879: the snapshot of all locations with public_id > 1
AllLocations(locations) ==
    LET ids == SortedSeq({l \in DOMAIN locations : l > 1})
    IN  [i \in 1..Len(ids) |-> [public_id |-> ids[i], parent |-> locations[ids[i]].parent,
                                 object_id |-> locations[ids[i]].object_id]]

RECURSIVE get_all_children(_, _)
RECURSIVE ChildrenOfEach(_, _, _)

\* the descendants of found[i], found[i+1], ... in that order
ChildrenOfEach(found, i, all_locations) ==
    IF i > Len(found) THEN <<>>
    ELSE get_all_children(found[i].public_id, all_locations)
            \o ChildrenOfEach(found, i + 1, all_locations)

DirectChildren(public_id, all_locations) ==
    LET HasParent(l) == l.parent = public_id
    IN  SelectSeq(all_locations, HasParent)

\* LocationsManager.get_all_children: the direct children in snapshot order,
\* then the descendants of each of them
get_all_children(public_id, all_locations) ==
    LET HasParent(l) == l.parent = public_id
        found == SelectSeq(all_locations, HasParent)
    IN  found \o ChildrenOfEach(found, 1, all_locations)

\* locations_manager.get_location_for_object: the location bound to the object, or 0
get_location_for_object(locations, object_id) ==
    IF \E l \in DOMAIN locations : locations[l].object_id = object_id
    THEN CHOOSE l \in DOMAIN locations : locations[l].object_id = object_id
    ELSE 0

HasChildOfObject(locations, location_id) ==
    \E l \in DOMAIN locations : locations[l].parent = locations[location_id].object_id

\* locations_manager.get_one_by({'parent': id}) finds a location
HasChildLocation(locations, location_id) ==
    \E l \in DOMAIN locations : locations[l].parent = location_id

LinksOf(ls, public_id) == {l \in ls : l.primary = public_id \/ l.secondary = public_id}

ReferencesTo(rs, public_id) == {r \in rs : r[2] = public_id}

\* The store while a handler runs, the calls issued so far and the response status
StartRun == [objs |-> objs, locs |-> locs, links |-> links, refs |-> refs,
             io |-> <<>>, status |-> 200, results |-> <<>>]

Call(run, event) == [run EXCEPT !.io = Append(@, event)]

Abort(run, status) == [run EXCEPT !.status = status]

\* objects_routes.py lines 1010-1024 and the call of delete_all_object_references
\* that follows it in every delete handler
RemoveLinksAndReferences(run, public_id) ==
    [run EXCEPT
        !.links = @ \ LinksOf(run.links, public_id),
        !.refs = @ \ ReferencesTo(run.refs, public_id),
        !.io = @ \o << <<"delete_object_links", public_id,
                         {l.public_id : l \in LinksOf(run.links, public_id)}>>,
                       <<"delete_all_object_references", public_id,
                         ReferencesTo(run.refs, public_id)>> >>]

\* locations_manager.delete({'public_id': id})
DeleteLocation(run, location_id) ==
    [run EXCEPT
        !.locs = Restrict(@, DOMAIN @ \ {location_id}),
        !.io = Append(@, <<"delete_location", location_id>>)]

\* CmdbObjectManager.delete_object: ObjectDeleteError or AccessDeniedError when the
\* delete is refused or the object is gone, the acknowledgment otherwise
DeleteObjectFails(run, public_id, fail) ==
    \/ fail.at = public_id /\ fail.kind \in {"access_denied", "delete_error"}
    \/ public_id \notin DOMAIN run.objs

DeleteObject(run, public_id, fail) ==
    IF DeleteObjectFails(run, public_id, fail)
    THEN Call(run, <<"delete_object", public_id, "raised">>)
    ELSE [run EXCEPT
            !.objs = Restrict(@, DOMAIN @ \ {public_id}),
            !.io = Append(@, <<"delete_object", public_id, "deleted">>)]

\* logs_manager.insert_log(action=LogAction.DELETE, ...); a ManagerInsertError is only logged
LogDelete(run, public_id, fail) ==
    IF fail.at = public_id /\ fail.kind = "log_error"
    THEN Call(run, <<"log_raised", "DELETE", public_id>>)
    ELSE Call(run, <<"log", "DELETE", public_id>>)

\* the handler is over: the store is what the run left; the body of the
\* response is the acknowledgments of a success and names no entity
Finish(op, ids, run) ==
    /\ objs' = run.objs
    /\ locs' = run.locs
    /\ links' = run.links
    /\ refs' = run.refs
    /\ io' = run.io
    /\ before' = [objs |-> objs, locs |-> locs, links |-> links, refs |-> refs]
    /\ UNCHANGED <<workers, users, check_status>>
    /\ resp' = [op |-> op, ids |-> ids, status |-> run.status,
                results |-> IF run.status = 200 THEN run.results ELSE <<>>,
                failed |-> <<>>, named |-> {}]

Fails(fail, public_id, kind) == fail.at = public_id /\ fail.kind = kind

\* get_type raises ObjectManagerGetError (404) or CmdbRender raises RenderError (500)
RenderFailed(run, public_id, fail) ==
    Abort(Call(run, <<"render", public_id, "raised">>),
          IF fail.kind = "type_missing" THEN 404 ELSE 500)

\* the status of the except clause that catches a failed delete_object call
DeleteFailStatus(fail) == IF fail.kind = "access_denied" THEN 403 ELSE 400

\* objects_routes.py lines 733-794
DeleteObjectRun(public_id, fail) ==
    LET r0 == Call(StartRun, <<"get_object", public_id>>) IN
    IF public_id \notin DOMAIN objs THEN Abort(r0, 404)
    ELSE
    LET r1 == RemoveLinksAndReferences(r0, public_id) IN
    IF objs[public_id].type_id \notin TypeIds
    THEN Abort(Call(r1, <<"render", public_id, "raised">>), 404)
    ELSE
    IF Fails(fail, public_id, "type_missing") \/ Fails(fail, public_id, "render_error")
    THEN RenderFailed(r1, public_id, fail)
    ELSE
    LET current_location == get_location_for_object(r1.locs, public_id)
        r2 == Call(r1, <<"get_location_for_object", public_id, current_location>>)
    IN
    IF current_location # 0 /\ HasChildLocation(r2.locs, current_location)
    THEN Abort(r2, 405)
    ELSE
    LET r3 == IF current_location # 0 THEN DeleteLocation(r2, current_location) ELSE r2
        r4 == DeleteObject(r3, public_id, fail)
    IN
    IF DeleteObjectFails(r3, public_id, fail) THEN Abort(r4, DeleteFailStatus(fail))
    ELSE LogDelete([r4 EXCEPT !.results = <<TRUE>>], public_id, fail)

\* DELETE /objects/<public_id>
delete_object(public_id, fail) ==
    /\ Idle
    /\ Finish("delete_object", <<public_id>>, DeleteObjectRun(public_id, fail))

RECURSIVE DeleteLocations(_, _, _)
\* for child in all_children: locations_manager.delete(child['public_id'])
DeleteLocations(run, children, i) ==
    IF i > Len(children) THEN run
    ELSE DeleteLocations(DeleteLocation(run, children[i].public_id), children, i + 1)

RECURSIVE DeleteObjects(_, _, _, _)
\* for child_object_id in children_object_ids: object_manager.delete_object(...);
\* an exception of a call is caught nowhere in the handler and ends it with 500
DeleteObjects(run, children, i, fail) ==
    IF i > Len(children) THEN run
    ELSE IF DeleteObjectFails(run, children[i].object_id, fail)
         THEN Abort(DeleteObject(run, children[i].object_id, fail), 500)
         ELSE DeleteObjects(DeleteObject(run, children[i].object_id, fail), children, i + 1, fail)

DeleteTargetObjectOnly(run, current_location, public_id, fail) ==
    LET r2 == DeleteObject(run, public_id, fail)
    IN  IF DeleteObjectFails(run, public_id, fail) THEN Abort(r2, 500)
        ELSE [r2 EXCEPT !.results = <<TRUE>>]

\* lines 894-895 and 828-830: the location of the object, then the object
DeleteTarget(run, current_location, public_id, fail) ==
    LET r1 == DeleteLocation(run, current_location)
        r2 == DeleteObject(r1, public_id, fail)
    IN  IF DeleteObjectFails(r1, public_id, fail) THEN Abort(r2, 500)
        ELSE [r2 EXCEPT !.results = <<TRUE>>]

\* objects_routes.py lines 861-908; with_objects = FALSE: lines 802-843
DeleteWithChildrenRun(public_id, fail, with_objects) ==
    LET r0 == Call(StartRun, <<"get_object", public_id>>) IN
    IF public_id \notin DOMAIN objs THEN Abort(r0, 404)
    ELSE
    LET r1 == RemoveLinksAndReferences(r0, public_id)
        current_location == get_location_for_object(r1.locs, public_id)
    IN
    IF current_location = 0 THEN Abort(r1, 404)
    ELSE
    LET all_children == get_all_children(current_location, AllLocations(r1.locs))
        r2 == Call(r1, <<"get_all_children", current_location, all_children>>)
        r3 == DeleteLocations(r2, all_children, 1)
        r4 == IF with_objects THEN DeleteObjects(r3, all_children, 1, fail) ELSE r3
    IN
    IF r4.status # 200 THEN r4
    ELSE DeleteTarget(r4, current_location, public_id, fail)

\* DELETE /objects/<public_id>/locations
delete_object_with_child_locations(public_id, fail) ==
    /\ Idle
    /\ Finish("delete_object_with_child_locations", <<public_id>>,
              DeleteWithChildrenRun(public_id, fail, FALSE))

\* DELETE /objects/<public_id>/children
delete_object_with_child_objects(public_id, fail) ==
    /\ Idle
    /\ Finish("delete_object_with_child_objects", <<public_id>>,
              DeleteWithChildrenRun(public_id, fail, TRUE))

RECURSIVE DeleteManyLoop(_, _, _, _)
\* objects_routes.py lines 943-984: every exception of a pass returns at once
DeleteManyLoop(run, objects, i, fail) ==
    IF i > Len(objects) \/ run.status # 200 THEN run
    ELSE
    LET id == objects[i]
        r1 == RemoveLinksAndReferences(run, id)
        r2 == DeleteObject(r1, id, fail)
        pass == IF Fails(fail, id, "type_missing") \/ Fails(fail, id, "render_error")
                THEN RenderFailed(r1, id, fail)
                ELSE IF DeleteObjectFails(r1, id, fail) THEN Abort(r2, DeleteFailStatus(fail))
                ELSE LogDelete([r2 EXCEPT !.results = Append(@, TRUE)], id, fail)
    IN  DeleteManyLoop(pass, objects, i + 1, fail)

DeleteManyRunRefusedLate(ids, fail) ==
    LET objects == SortedSeq(ids \cap DOMAIN objs)
        r0 == Call(StartRun, <<"get_objects_by", ids>>)
        IsFree(o) == get_location_for_object(locs, o) = 0
    IN  IF \E i \in 1..Len(objects) : ~IsFree(objects[i])
        THEN Abort(DeleteManyLoop(r0, SelectSeq(objects, IsFree), 1, fail), 405)
        ELSE DeleteManyLoop(r0, objects, 1, fail)

\* objects_routes.py lines 916-991: the objects found for the identifiers, by
\* public_id; refused when one of them has a location
DeleteManyRun(ids, fail) ==
    LET objects == SortedSeq(ids \cap DOMAIN objs)
        r0 == Call(StartRun, <<"get_objects_by", ids>>)
    IN  IF \E i \in 1..Len(objects) : get_location_for_object(locs, objects[i]) # 0
        THEN Abort(r0, 405)
        ELSE DeleteManyLoop(r0, objects, 1, fail)

\* DELETE /objects/delete/<public_ids>
delete_many_objects(ids, fail) ==
    /\ Idle
    /\ Finish("delete_many_objects", SortedSeq(ids), DeleteManyRun(ids, fail))

(* --------------------------- initial stores --------------------------- *)

DeleteObjIds == 1..MaxObj

\* an identifier no object has
MissingObj == MaxObj + 1

\* the forests over the locations of the located objects, rooted at location 1:
\* a location is created under a location that exists, the root or an older one
Forests(located) ==
    LET ids == {LocationIdOf(o) : o \in located}
    IN  {par \in [ids -> ids \cup {RootLocation}] : \A l \in ids : par[l] < l}

LocationsOf(located, par) ==
    [l \in {RootLocation} \cup DOMAIN par |->
        IF l = RootLocation THEN RootRecord
        ELSE [parent |-> par[l], object_id |-> l - 1]]

\* MaxObj objects, some of them with a location in a forest; object o is linked
\* to object o + 1 and referenced by it
InitDelete ==
    /\ objs = [o \in DeleteObjIds |-> NewObject(1, {})]
    /\ \E located \in SUBSET DeleteObjIds : \E par \in Forests(located) :
          locs = LocationsOf(located, par)
    /\ links = {[public_id |-> o, primary |-> o, secondary |-> o + 1] : o \in 1..(MaxObj - 1)}
    /\ refs = {<<o + 1, o>> : o \in 1..(MaxObj - 1)}
    /\ resp = NoResponse /\ io = <<>> /\ before = NoBefore /\ workers = NoWorkers
    /\ users = AdminOnly /\ check_status = "NOT"

DeleteFailKinds == {"type_missing", "render_error", "access_denied", "delete_error", "log_error"}

DeleteFails(targets) == {NoFail} \cup [at : targets, kind : DeleteFailKinds]

\* a call of delete_object fails for at most one object of a cascade
CascadeFails == {NoFail} \cup [at : DeleteObjIds, kind : {"access_denied", "delete_error"}]

NextDelete ==
    \/ \E public_id \in DeleteObjIds \cup {MissingObj} :
          \E fail \in DeleteFails({public_id}) : delete_object(public_id, fail)
    \/ \E public_id \in DeleteObjIds \cup {MissingObj}, fail \in CascadeFails :
          delete_object_with_child_locations(public_id, fail)
    \/ \E public_id \in DeleteObjIds \cup {MissingObj}, fail \in CascadeFails :
          delete_object_with_child_objects(public_id, fail)
    \/ \E ids \in SUBSET (DeleteObjIds \cup {MissingObj}) :
          /\ ids # {}
          /\ \E fail \in DeleteFails(ids \cap DeleteObjIds) : delete_many_objects(ids, fail)
    \/ return_response

SpecDelete == InitDelete /\ [][NextDelete]_vars

(* ========================= structural repair ========================== *)

\* the field definitions of type t in schema order (the newest field first)
TypeFieldList(t) == [i \in 1..(t - 1) |-> t - i]

\* the names of the stored fields of an object, as a list
ObjectFieldList(obj) == SortedSeq(DOMAIN obj.fields)

\* Python's sorted() on a list of distinct names
Sorted(names) == SortedSeq(SeqToSet(names))

\* the value update_unstructured_objects adds for a field without "value"
NullValue == -1

\* the type fields that carry a "value" (a default): the odd-named ones
TypeFieldHasValue(name) == name % 2 = 1

\* a type identifier no TypeSchema has
MissingType == MaxFields + 2

\* manager.iterate({'type_id': public_id}, sort='public_id', order=1)
ObjectsOfType(objects, type_id) ==
    SortedSeq({o \in DOMAIN objects : objects[o].type_id = type_id})

IsUnstructuredUnsorted(obj, type_id) == ObjectFieldList(obj) # TypeFieldList(type_id)

\* objects_routes.py line 464: sorted(object_fields) != type_fields
IsUnstructured(obj, type_id) == Sorted(ObjectFieldList(obj)) # Sorted(TypeFieldList(type_id))

\* objects_routes.py lines 448-468: GET /objects/unstructured/<public_id>
get_unstructured_objects(public_id) ==
    /\ Idle
    /\ LET r0 == Call(StartRun, <<"iterate", public_id>>)
           objects == ObjectsOfType(objs, public_id)
           IsFound(o) == IsUnstructured(objs[o], public_id)
       IN  Finish("get_unstructured_objects", <<public_id>>,
                  IF public_id \notin TypeIds THEN Abort(r0, 400)
                  ELSE [r0 EXCEPT !.results = SelectSeq(objects, IsFound)])

\* objects_routes.py lines 681-691: the names of the object's fields that differ
\* from some type field and equal none
RemovedTypeFields(obj, type_id) ==
    LET correct == {f \in DOMAIN obj.fields : \E name \in TypeFieldNames(type_id) : name = f}
        incorrect == {f \in DOMAIN obj.fields : \E name \in TypeFieldNames(type_id) : name # f}
    IN  incorrect \ correct

RECURSIVE PullLoop(_, _, _, _, _)
\* objects_routes.py lines 680-694: $pull of the removed fields, object by object;
\* a ManagerUpdateError leaves the handler with 400
PullLoop(run, objects, i, type_id, fail) ==
    IF i > Len(objects) \/ run.status # 200 THEN run
    ELSE LET o == objects[i]
             removed == RemovedTypeFields(run.objs[o], type_id)
         IN  PullLoop(IF removed # {} /\ Fails(fail, o, "pull_error")
                      THEN Abort(run, 400)
                      ELSE [run EXCEPT
                              !.objs[o].fields = Restrict(@, DOMAIN @ \ removed),
                              !.io = @ \o (IF removed = {} THEN <<>>
                                           ELSE << <<"pull", o, removed>> >>)],
                      objects, i + 1, type_id, fail)

RECURSIVE AddLoop(_, _, _, _, _)
\* objects_routes.py lines 699-710: $addToSet of every type field the object lacks
AddLoop(run, objects, i, type_id, fail) ==
    IF i > Len(objects) \/ run.status # 200 THEN run
    ELSE LET o == objects[i]
             missing == TypeFieldNames(type_id) \ DOMAIN run.objs[o].fields
             added == [name \in missing |->
                          IF TypeFieldHasValue(name) THEN DefaultValue ELSE NullValue]
         IN  AddLoop(IF missing # {} /\ Fails(fail, o, "add_error")
                     THEN Abort(run, 400)
                     ELSE [run EXCEPT
                             !.objs[o].fields =
                                 [name \in DOMAIN @ \cup missing |->
                                     IF name \in missing THEN added[name] ELSE @[name]],
                             !.io = @ \o (IF missing = {} THEN <<>>
                                          ELSE << <<"add", o, missing>> >>)],
                     objects, i + 1, type_id, fail)

\* objects_routes.py lines 668-716: PUT /objects/clean/<public_id>
update_unstructured_objects(public_id, fail) ==
    /\ Idle
    /\ LET r0 == Call(StartRun, <<"iterate", public_id>>)
           objects == ObjectsOfType(objs, public_id)
           r1 == PullLoop(r0, objects, 1, public_id, fail)
       IN  Finish("update_unstructured_objects", <<public_id>>,
                  IF public_id \notin TypeIds THEN Abort(r0, 400)
                  ELSE AddLoop(r1, objects, 1, public_id, fail))

\* the types of the objects of a repair: no field, one field, two fields
RepairTypeIds == {1, 2, 3}

\* the field names an object of a repair can hold
RepairFieldNames == {1, 2, 3}

\* Objects 1 and 2, each of some type and holding any fields
InitRepair ==
    /\ \E t \in [ObjIds -> RepairTypeIds], names \in [ObjIds -> SUBSET RepairFieldNames] :
          objs = [id \in ObjIds |-> NewObject(t[id], names[id])]
    /\ locs = << >> /\ links = {} /\ refs = {}
    /\ resp = NoResponse /\ io = <<>> /\ before = NoBefore /\ workers = NoWorkers
    /\ users = AdminOnly /\ check_status = "NOT"

RepairFails == {NoFail} \cup [at : ObjIds, kind : {"pull_error", "add_error"}]

NextRepair ==
    \/ \E public_id \in RepairTypeIds \cup {MissingType} : get_unstructured_objects(public_id)
    \/ \E public_id \in RepairTypeIds \cup {MissingType}, fail \in RepairFails :
          update_unstructured_objects(public_id, fail)
    \/ return_response

SpecRepair == InitRepair /\ [][NextRepair]_vars

(* ================== create, activation change ========================= *)

\* the one object identifier of the create/update/delete sequences
CrudObjIds == {1}

\* dbm.get_next_public_id: the identifier after the largest one in the collection
get_new_id(objects) ==
    IF DOMAIN objects = {} THEN 1
    ELSE (CHOOSE m \in DOMAIN objects : \A o \in DOMAIN objects : o <= m) + 1

InsertDataKeepVersion(data) ==
    [type_id |-> data.type_id, fields |-> data.fields,
     version |-> IF data.has_version THEN data.version ELSE InitialVersion,
     active |-> IF data.active = NoValue THEN TRUE ELSE data.active = "true"]

\* objects_routes.py lines 95-100: the document handed to the manager
InsertData(data) ==
    [type_id |-> data.type_id, fields |-> data.fields,
     version |-> InitialVersion,
     active |-> IF data.active = NoValue THEN TRUE ELSE data.active = "true"]

LogCreateAborting(run, public_id, fail) ==
    IF fail.kind = "log_error"
    THEN Abort(Call(run, <<"log_raised", "CREATE", public_id>>), 500)
    ELSE Call(run, <<"log", "CREATE", public_id>>)

\* objects_routes.py lines 115-127: the CREATE log; a ManagerInsertError is only logged
LogCreate(run, public_id, fail) ==
    IF fail.kind = "log_error"
    THEN Call(run, <<"log_raised", "CREATE", public_id>>)
    ELSE Call(run, <<"log", "CREATE", public_id>>)

\* objects_routes.py lines 81-141; data.public_id = 0: the request names no identifier
InsertObjectRun(data, fail) ==
    LET r0 == Call(StartRun, <<"request", data>>)
        public_id == IF data.public_id = 0 THEN get_new_id(objs) ELSE data.public_id
    IN
    \* lines 88-93: the identifier is taken
    IF data.public_id # 0 /\ data.public_id \in DOMAIN objs THEN Abort(r0, 400)
    \* lines 102-104: CmdbObjectManager.insert_object
    ELSE IF fail.kind = "insert_denied" THEN Abort(r0, 403)
    ELSE IF fail.kind = "insert_error" THEN Abort(r0, 400)
    ELSE
    LET r1 == [r0 EXCEPT
                  !.objs = [o \in DOMAIN @ \cup {public_id} |->
                               IF o = public_id THEN InsertData(data) ELSE @[o]],
                  !.io = Append(@, <<"insert", public_id>>)]
    IN
    \* line 106: get_type raises ObjectManagerGetError
    IF data.type_id \notin TypeIds THEN Abort(Call(r1, <<"get_type", data.type_id, "raised">>), 404)
    \* lines 109-112: CmdbRender raises RenderError
    ELSE IF fail.kind = "render_error" THEN Abort(Call(r1, <<"render", public_id, "raised">>), 500)
    ELSE LogCreate([r1 EXCEPT !.results = <<public_id>>], public_id, fail)

\* POST /objects/
insert_object(data, fail) ==
    /\ Idle
    /\ (IF data.public_id = 0 THEN get_new_id(objs) ELSE data.public_id) \in CrudObjIds
    /\ Finish("insert_object",
              <<IF data.public_id = 0 THEN get_new_id(objs) ELSE data.public_id>>,
              InsertObjectRun(data, fail))

\* objects_routes.py lines 630-648: the ACTIVE_CHANGE log; a ManagerInsertError is only logged
LogActiveChange(run, public_id, fail) ==
    IF fail.kind = "log_error"
    THEN Call(run, <<"log_raised", "ACTIVE_CHANGE", public_id>>)
    ELSE Call(run, <<"log", "ACTIVE_CHANGE", public_id>>)

\* objects_routes.py lines 595-651; state = NoValue: the body is not a boolean
UpdateObjectStateRun(public_id, state, fail) ==
    LET r0 == Call(StartRun, <<"request", state>>) IN
    IF state = NoValue THEN Abort(r0, 400)
    ELSE
    LET r1 == Call(r0, <<"read", public_id>>) IN
    \* line 600: manager.get
    IF public_id \notin DOMAIN objs THEN Abort(r1, 404)
    \* an AccessDeniedError of manager.get is caught nowhere
    ELSE IF fail.kind = "read_denied" THEN Abort(r1, 500)
    \* lines 605-606
    ELSE IF objs[public_id].active = (state = "true") THEN Abort(r1, 204)
    \* line 609: manager.update
    ELSE IF fail.kind = "update_denied" THEN Abort(r1, 403)
    ELSE IF fail.kind = "update_error" THEN Abort(r1, 500)
    ELSE
    LET r2 == [r1 EXCEPT !.objs[public_id].active = (state = "true"),
                         !.io = Append(@, <<"write", public_id, objs[public_id].version>>)]
    IN
    \* lines 617-628: the type is loaded and the object rendered after the write
    IF fail.kind = "type_missing" \/ objs[public_id].type_id \notin TypeIds
    THEN Abort(Call(r2, <<"render", public_id, "raised">>), 404)
    ELSE IF fail.kind = "render_error"
    THEN Abort(Call(r2, <<"render", public_id, "raised">>), 500)
    ELSE LogActiveChange([r2 EXCEPT !.results = <<public_id>>], public_id, fail)

\* PUT /objects/<public_id>/state
update_object_state(public_id, state, fail) ==
    /\ Idle
    /\ Finish("update_object_state", <<public_id>>, UpdateObjectStateRun(public_id, state, fail))

\* the version an insert request may carry
RequestVersion == <<2, 1, 0>>

\* the bodies of the insert requests: an identifier or none, an existing type or
\* none, no field or the field of type 2, a version or none, an active flag or none
InsertRequests ==
    [public_id : CrudObjIds \cup {0}, type_id : {1, 2, MissingType},
     fields : {<< >>, (1 :> 1)}, has_version : BOOLEAN, version : {RequestVersion},
     active : {NoValue, "false"}]

InsertFailKinds == {"insert_denied", "insert_error", "render_error", "log_error"}

StateFailKinds ==
    {"read_denied", "update_denied", "update_error", "type_missing", "render_error", "log_error"}

FailsOf(kinds) == {NoFail} \cup [at : CrudObjIds, kind : kinds]

\* the fields of an update in these sequences: none, or field 1
CrudFields == {<< >>, (1 :> 1)}

\* the store is empty
InitCrud ==
    /\ objs = << >> /\ locs = << >> /\ links = {} /\ refs = {}
    /\ resp = NoResponse /\ io = <<>> /\ before = NoBefore /\ workers = NoWorkers
    /\ users = AdminOnly /\ check_status = "NOT"

NextCrud ==
    \/ \E data \in InsertRequests, fail \in FailsOf(InsertFailKinds) : insert_object(data, fail)
    \/ \E fields \in CrudFields, fail \in FailsOf(UpdateFailKinds) :
          update_object(<<1>>, RequestData(fields, FALSE, NoValue), fail)
    \/ \E public_id \in CrudObjIds, state \in {NoValue, "true", "false"},
          fail \in FailsOf(StateFailKinds) : update_object_state(public_id, state, fail)
    \/ \E public_id \in CrudObjIds : \E fail \in DeleteFails({public_id}) :
          delete_object(public_id, fail)
    \/ return_response

SpecCrud == InitCrud /\ [][NextCrud]_vars

(* ======================= backward references ========================= *)

\* the reference fields of the TypeSchemas: every field of the types 2 and 3 is
\* of input type 'ref' with ref_types = [1]; no other field is a reference
RefTypes(t, name) == IF t \in {2, 3} /\ name \in TypeFieldNames(t) THEN {1} ELSE {}

\* a stored field value that is an identifier: the number or the string of it
IntValue(id) == <<"int", id>>
StrValue(id) == <<"str", id>>

\* get_types_by(fields $elemMatch type 'ref', ref_types type_id), by public_id
ReferencingTypes(type_id) ==
    SortedSeq({t \in TypeIds : \E name \in TypeFieldNames(t) : type_id \in RefTypes(t, name)})

\* TypeModel.get_field_of_type_with_value(input_type='ref', _filter='ref_types',
\* value=type_id): one field, the first of the schema that matches
get_field_of_type_with_value(t, type_id) ==
    LET Matches(name) == type_id \in RefTypes(t, name)
    IN  SelectSeq(TypeFieldList(t), Matches)[1]

\* cmdb_object_manager.py lines 254-256: the objects of the type whose field of
\* that name holds int(public_id) or str(public_id), by public_id
ReferencedQuery(objects, t, field_name, public_id) ==
    SortedSeq({o \in DOMAIN objects :
                  /\ objects[o].type_id = t
                  /\ field_name \in DOMAIN objects[o].fields
                  /\ objects[o].fields[field_name] \in {IntValue(public_id), StrValue(public_id)}})

RECURSIVE ReferencedByObjects(_, _, _, _, _)
\* cmdb_object_manager.py lines 240-257: per referencing type one field name,
\* and the objects found for it appended to the result
ReferencedByObjects(objects, types, i, type_id, public_id) ==
    IF i > Len(types) THEN <<>>
    ELSE ReferencedQuery(objects, types[i],
                         get_field_of_type_with_value(types[i], type_id), public_id)
            \o ReferencedByObjects(objects, types, i + 1, type_id, public_id)

\* cmdb_object_manager.py lines 230-259
get_object_references(public_id) ==
    /\ Idle
    /\ LET r0 == Call(StartRun, <<"get_object", public_id>>)
       IN  Finish("get_object_references", <<public_id>>,
                  \* line 232: get_object raises ObjectManagerGetError
                  IF public_id \notin DOMAIN objs THEN Abort(r0, 404)
                  ELSE [r0 EXCEPT !.results =
                           ReferencedByObjects(objs, ReferencingTypes(objs[public_id].type_id), 1,
                                               objs[public_id].type_id, public_id)])

\* the values of the reference fields of the initial stores
RefValues == {IntValue(1), StrValue(1), IntValue(2)}

\* Object 1 of type 1, and objects 2 and 3 of the types 2 and 3 that hold an
\* identifier in every field of their type
InitRefs ==
    /\ \E t \in [{2, 3} -> {2, 3}] :
          \E f2 \in [TypeFieldNames(t[2]) -> RefValues], f3 \in [TypeFieldNames(t[3]) -> RefValues] :
              objs = [o \in {1, 2, 3} |->
                         IF o = 1 THEN NewObject(1, {})
                         ELSE [NewObject(t[o], {}) EXCEPT !.fields = IF o = 2 THEN f2 ELSE f3]]
    /\ locs = << >> /\ links = {} /\ refs = {}
    /\ resp = NoResponse /\ io = <<>> /\ before = NoBefore /\ workers = NoWorkers
    /\ users = AdminOnly /\ check_status = "NOT"

NextRefs ==
    \/ \E public_id \in 1..4 : get_object_references(public_id)
    \/ return_response

SpecRefs == InitRefs /\ [][NextRefs]_vars

(* ================= concurrent updates of one object =================== *)

\* lines 493-498 of a request of worker w for object 1: manager.get reads the
\* stored object; the worker keeps it, and the fields of the request body (the
\* body carries no version and no active flag), while it works on the request
read_current(w, data) ==
    /\ workers[w].pc = "idle"
    /\ resp.op = "none"
    /\ Len(io) < MaxCalls
    /\ 1 \in DOMAIN objs /\ VersionCapped(objs[1].version)
    /\ workers' = [workers EXCEPT ![w] = [pc |-> "read", fields |-> data.fields, current |-> objs[1]]]
    /\ io' = Append(io, <<"read", 1>>)
    /\ UNCHANGED <<objs, locs, links, refs, resp, before, users, check_status>>

WriteAcceptedIfFresh(stored, current) == stored = current

\* CmdbObjectManager.update_object lines 199-203: dbm.update by public_id, whatever
\* the stored document is by now
WriteAccepted(stored, current) == TRUE

\* lines 505-565 of the request of worker w: the new object is computed from the
\* object the worker read, written over the stored one, and logged
write_new(w) ==
    /\ workers[w].pc = "read"
    /\ LET mine == UpdateItem([objs |-> [o \in {1} |-> workers[w].current],
                               results |-> <<>>, failed |-> <<>>, io |-> <<>>, status |-> 200],
                              1, RequestData(workers[w].fields, FALSE, NoValue), "ok")
           \* the calls of the pass after its read
           calls == SubSeq(mine.io, 2, Len(mine.io))
       IN  IF WriteAccepted(objs[1], workers[w].current)
           THEN /\ objs' = [objs EXCEPT ![1] = mine.objs[1]]
                /\ io' = io \o calls
                /\ workers' = [workers EXCEPT ![w] =
                                  [pc |-> "written", fields |-> @.fields, current |-> @.current,
                                   new_data |-> mine.objs[1], wrote_at |-> Len(io) + 2]]
           ELSE /\ objs' = objs
                /\ io' = io \o << <<"write_raised", 1>> >>
                /\ workers' = [workers EXCEPT ![w] =
                                  [pc |-> "refused", fields |-> @.fields, current |-> @.current]]
    /\ UNCHANGED <<locs, links, refs, resp, before, users, check_status>>

\* lines 586-587: the response of worker w; the calls are forgotten when no
\* other request is in flight
respond(w) ==
    /\ workers[w].pc \in {"written", "refused"}
    /\ workers' = [workers EXCEPT ![w] = IdleWorker]
    /\ io' = IF \A v \in Workers \ {w} : workers[v].pc = "idle" THEN <<>> ELSE io
    /\ UNCHANGED <<objs, locs, links, refs, resp, before, users, check_status>>

\* Object 1 of a type with one or two fields
InitConcurrent ==
    /\ \E t \in {2, 3} : objs = [id \in {1} |-> NewObject(t, TypeFieldNames(t))]
    /\ locs = << >> /\ links = {} /\ refs = {}
    /\ resp = NoResponse /\ io = <<>> /\ before = NoBefore /\ workers = NoWorkers
    /\ users = AdminOnly /\ check_status = "NOT"

\* the fields of the concurrent updates: none, field 1, or fields 1 and 2
ConcurrentFields == {<< >>, (1 :> 1), (1 :> 1 @@ 2 :> 1)}

NextConcurrent ==
    \/ \E w \in Workers, fields \in ConcurrentFields :
          read_current(w, RequestData(fields, FALSE, NoValue))
    \/ \E w \in Workers : write_new(w)
    \/ \E w \in Workers : respond(w)

SpecConcurrent == InitConcurrent /\ [][NextConcurrent]_vars

(* ====================== concurrent insert requests ==================== *)

\* the largest identifier of the concurrent inserts, and the number of store
\* calls after which no further insert request is taken
MaxInsertId == 2
MaxInsertCalls == 4

\* the identifiers the concurrent inserts may use
InsertIds == 1..MaxInsertId

\* the body of the insert request of a worker: the identifier it names (0: none)
\* and the fields of an object of type 2
InsertBody(public_id, fields) ==
    [public_id |-> public_id, type_id |-> 2, fields |-> fields,
     has_version |-> FALSE, version |-> InitialVersion, active |-> NoValue]

\* objects_routes.py lines 85-93 of the request of worker w: without an identifier
\* in the body the next identifier of the collection is read (and not reserved);
\* with one, the request is refused with 400 when get_object finds the object
check_public_id(w, public_id, fields) ==
    /\ workers[w].pc = "idle"
    /\ resp.op = "none"
    /\ Len(io) < MaxInsertCalls
    /\ LET new_id == IF public_id = 0 THEN get_new_id(objs) ELSE public_id IN
       /\ new_id \in InsertIds
       /\ IF public_id # 0 /\ public_id \in DOMAIN objs
          THEN /\ workers' = [workers EXCEPT ![w] =
                                 [pc |-> "rejected", public_id |-> new_id, fields |-> fields,
                                  status |-> 400]]
               /\ io' = Append(io, <<"get_object", new_id, "found">>)
          ELSE /\ workers' = [workers EXCEPT ![w] =
                                 [pc |-> "checked", public_id |-> new_id, fields |-> fields]]
               /\ io' = Append(io, IF public_id = 0 THEN <<"get_new_id", new_id>>
                                                     ELSE <<"get_object", new_id, "raised">>)
    /\ UNCHANGED <<objs, locs, links, refs, resp, before, users, check_status>>

InsertAcceptedAlways(objects, public_id) == TRUE

\* dbm.insert raises PublicIDAlreadyExists when a document of the collection has
\* the identifier (CmdbObjectManager.insert_object line 176 catches it)
InsertAccepted(objects, public_id) == public_id \notin DOMAIN objects

\* objects_routes.py lines 95-104 of the request of worker w:
\* CmdbObjectManager.insert_object stores the document, or raises
\* ObjectInsertError, which lines 129-131 answer with 400
store_new_object(w) ==
    /\ workers[w].pc = "checked"
    /\ LET public_id == workers[w].public_id
           document == InsertData(InsertBody(public_id, workers[w].fields))
       IN  IF InsertAccepted(objs, public_id)
           THEN /\ objs' = [o \in DOMAIN objs \cup {public_id} |->
                               IF o = public_id THEN document ELSE objs[o]]
                /\ io' = Append(io, <<"insert", public_id, document>>)
                /\ workers' = [workers EXCEPT ![w] =
                                  [pc |-> "inserted", public_id |-> public_id,
                                   fields |-> @.fields, status |-> 200]]
           ELSE /\ objs' = objs
                /\ io' = Append(io, <<"insert_raised", public_id>>)
                /\ workers' = [workers EXCEPT ![w] =
                                  [pc |-> "rejected", public_id |-> public_id,
                                   fields |-> @.fields, status |-> 400]]
    /\ UNCHANGED <<locs, links, refs, resp, before, users, check_status>>

\* lines 131 and 141: the response of worker w; the calls are forgotten when no
\* other request is in flight
respond_insert(w) ==
    /\ workers[w].pc \in {"inserted", "rejected"}
    /\ workers' = [workers EXCEPT ![w] = IdleWorker]
    /\ io' = IF \A v \in Workers \ {w} : workers[v].pc = "idle" THEN <<>> ELSE io
    /\ UNCHANGED <<objs, locs, links, refs, resp, before, users, check_status>>

\* an empty object collection, or object 1 of type 2
InitInsert ==
    /\ \E n \in 0..1 : objs = [id \in 1..n |-> NewObject(2, TypeFieldNames(2))]
    /\ locs = << >> /\ links = {} /\ refs = {}
    /\ resp = NoResponse /\ io = <<>> /\ before = NoBefore /\ workers = NoWorkers
    /\ users = AdminOnly /\ check_status = "NOT"

NextInsert ==
    \/ \E w \in Workers, public_id \in InsertIds \cup {0}, fields \in CrudFields :
          check_public_id(w, public_id, fields)
    \/ \E w \in Workers : store_new_object(w)
    \/ \E w \in Workers : respond_insert(w)

SpecInsert == InitInsert /\ [][NextInsert]_vars

(* ========================== user accounts ============================= *)

\* largest public_id of a user account
MaxUsers == 5

UserIds == 1..MaxUsers

NewUser(public_id) ==
    [user_name |-> IF public_id = 1 THEN "admin" ELSE "user"]

\* the response of a UserManager call: its return value or the error it raised
UserResponse(op, public_id, raised, result) ==
    [op |-> op, ids |-> <<public_id>>, status |-> 200, results |-> result, failed |-> <<>>,
     named |-> {}, raised |-> raised]

ProtectedNone == {}

\* user_manager.py line 150: the accounts delete refuses, [1]
Protected == {1}

\* UserManager.insert, lines 110-125: _insert stores the account
user_insert(public_id) ==
    /\ Idle
    /\ public_id \notin DOMAIN users
    /\ users' = [u \in DOMAIN users \cup {public_id} |->
                    IF u = public_id THEN NewUser(public_id) ELSE users[u]]
    /\ io' = <<<<"_insert", public_id>>>>
    /\ before' = [objs |-> objs, locs |-> locs, links |-> links, refs |-> refs, users |-> users]
    /\ resp' = UserResponse("user_insert", public_id, "none", <<public_id>>)
    /\ UNCHANGED <<objs, locs, links, refs, workers, check_status>>

\* UserManager.delete, lines 136-157. removed_meanwhile: another request removed
\* the account between self.get and self._delete, which then reports
\* deleted_count = 0
user_delete(public_id, removed_meanwhile) ==
    /\ Idle
    /\ before' = [objs |-> objs, locs |-> locs, links |-> links, refs |-> refs, users |-> users]
    /\ IF public_id \in Protected
       THEN \* lines 150-151
            /\ users' = users
            /\ io' = <<>>
            /\ resp' = UserResponse("user_delete", public_id, "ManagerDeleteError", <<>>)
       ELSE IF public_id \notin DOMAIN users
       THEN \* line 152: self.get raises
            /\ users' = users
            /\ io' = <<<<"_get", public_id, 0>>>>
            /\ resp' = UserResponse("user_delete", public_id, "ManagerGetError", <<>>)
       ELSE IF removed_meanwhile
       THEN \* lines 153-156
            /\ users' = Restrict(users, DOMAIN users \ {public_id})
            /\ io' = <<<<"_get", public_id, 1>>, <<"_delete", public_id, 0>>>>
            /\ resp' = UserResponse("user_delete", public_id, "ManagerDeleteError", <<>>)
       ELSE \* lines 153-157
            /\ users' = Restrict(users, DOMAIN users \ {public_id})
            /\ io' = <<<<"_get", public_id, 1>>, <<"_delete", public_id, 1>>>>
            /\ resp' = UserResponse("user_delete", public_id, "none", <<users[public_id]>>)
    /\ UNCHANGED <<objs, locs, links, refs, workers, check_status>>

\* the admin account and any of the other accounts
InitUsers ==
    /\ \E others \in SUBSET (UserIds \ {1}) :
          users = [public_id \in {1} \cup others |-> NewUser(public_id)]
    /\ objs = << >> /\ locs = << >> /\ links = {} /\ refs = {}
    /\ resp = NoResponse /\ io = <<>> /\ before = NoBefore /\ workers = NoWorkers
    /\ check_status = "NOT"

NextUsers ==
    \/ \E public_id \in UserIds : user_insert(public_id)
    \/ \E public_id \in UserIds \cup {MaxUsers + 1}, removed_meanwhile \in BOOLEAN :
          user_delete(public_id, removed_meanwhile)
    \/ return_response

SpecUsers == InitUsers /\ [][NextUsers]_vars

(* ===================== database check routine ========================= *)

\* __check__.py lines 83-85 and 91-113: the collections in the order they are
\* validated: framework, user management, export jobs
ValidationOrder ==
    <<"framework.objects", "framework.locations", "management.users", "exportd.jobs">>

Collections == SeqToSet(ValidationOrder)

\* CmdbLocation.COLLECTION
LocationCollection == "framework.locations"

\* how validate_collection reports a collection that is not valid: with
\* 'valid': False in the result it returns, or with an exception
Reports == {"returns", "raises"}

\* what has_updates finds: the current version is the newest one, a newer
\* version exists, or the settings have no 'updater' section
UpdaterStates == {"current", "newer", "no_section"}

\* lines 92, 110, 113: collection_test = validate_collection(...)['valid']
CollectionTest(collection_test, result) == result

RECURSIVE ValidateCollections(_, _, _, _)
\* __check_database_collection_valid, lines 81-123, from collection i on: the
\* result of the test, the calls made, and whether the root location was set up
ValidateCollections(valid, reports, i, acc) ==
    IF i > Len(ValidationOrder) THEN acc
    ELSE LET collection == ValidationOrder[i] IN
         IF collection \notin valid /\ reports = "raises"
         THEN \* lines 117-120
              [acc EXCEPT !.collection_test = FALSE,
                          !.calls = Append(@, <<"validate_collection", collection, "raised">>)]
         ELSE ValidateCollections(valid, reports, i + 1,
                  [collection_test |-> CollectionTest(acc.collection_test, collection \in valid),
                   calls |-> Append(acc.calls,
                                    <<"validate_collection", collection, collection \in valid>>),
                   root_set |-> acc.root_set
                                 \/ (collection = LocationCollection /\ collection \in valid)])

\* lines 125-155: True unless a newer version exists or the section is missing
has_updates(updater) == updater = "current"

\* set_root_location: the root location is created or put right
SetRootLocation(locations) ==
    [l \in DOMAIN locations \cup {RootLocation} |->
        IF l = RootLocation THEN RootRecord ELSE locations[l]]

\* CheckRoutine.checker, lines 58-70
checker(empty, valid, reports, updater) ==
    /\ Idle
    /\ LET tested == ValidateCollections(valid, reports, 1,
                         [collection_test |-> TRUE, calls |-> <<>>, root_set |-> FALSE])
           updated == has_updates(updater)
       IN  /\ check_status' =
                 IF empty THEN "FINISHED"
                 ELSE IF tested.collection_test /\ updated THEN "FINISHED"
                 ELSE "HAS_UPDATES"
           /\ locs' = IF ~empty /\ tested.root_set THEN SetRootLocation(locs) ELSE locs
           /\ io' = <<<<"list_collection_names", empty>>>>
                    \o (IF empty THEN <<>> ELSE tested.calls)
                    \o (IF ~empty /\ tested.collection_test
                        THEN <<<<"has_updates", updated>>>> ELSE <<>>)
           /\ resp' = [op |-> "checker", ids |-> <<>>, status |-> 200, results |-> <<>>,
                       failed |-> <<>>, named |-> {}, empty |-> empty, valid |-> valid,
                       updater |-> updater]
    /\ before' = [objs |-> objs, locs |-> locs, links |-> links, refs |-> refs]
    /\ UNCHANGED <<objs, links, refs, workers, users>>

\* a routine that has not run, on a database whose root location is absent,
\* right, or bound to an object
InitCheck ==
    /\ locs \in {<< >>, [l \in {RootLocation} |-> RootRecord],
                 [l \in {RootLocation} |-> [parent |-> 0, object_id |-> 1]]}
    /\ check_status = "NOT"
    /\ objs = << >> /\ links = {} /\ refs = {}
    /\ resp = NoResponse /\ io = <<>> /\ before = NoBefore /\ workers = NoWorkers
    /\ users = AdminOnly

NextCheck ==
    \/ \E empty \in BOOLEAN, valid \in SUBSET Collections, reports \in Reports,
          updater \in UpdaterStates : checker(empty, valid, reports, updater)
    \/ return_response

SpecCheck == InitCheck /\ [][NextCheck]_vars

(* ------------------- claims on the version policy --------------------- *)

\* the passes of the latest update_object that computed a diff and wrote the object
Bumps ==
    {i \in 1..(Len(io) - 1) : io[i][1] = "diff" /\ io[i + 1][1] = "write"}

Changed(i) == io[i][3]
Total(i)   == io[i][4]

IsPatch(i) == io[i + 1][3] = <<io[i][5][1], io[i][5][2], io[i][5][3] + 1>>
IsMinor(i) == io[i + 1][3] = <<io[i][5][1], io[i][5][2] + 1, 0>>
IsMajor(i) == io[i + 1][3] = <<io[i][5][1] + 1, 0, 0>>

\* C1: with c changed fields out of n, update_object bumps PATCH if c = 1, else
\* MAJOR if c = n, else MINOR if c > n/2, else PATCH; n = 1, c = 1 gives PATCH.
C1_VersionPriority ==
    \A i \in Bumps :
        /\ Changed(i) = 1 => IsPatch(i)
        /\ (Changed(i) # 1 /\ Changed(i) = Total(i)) => IsMajor(i)
        /\ (Changed(i) # 1 /\ Changed(i) # Total(i) /\ 2 * Changed(i) > Total(i)) => IsMinor(i)
        /\ (Changed(i) # 1 /\ Changed(i) # Total(i) /\ 2 * Changed(i) <= Total(i)) => IsPatch(i)

C1_Witness ==
    \E i \in Bumps : Total(i) = 1 /\ Changed(i) = 1 /\ IsPatch(i) /\ ~IsMajor(i)

\* C2 as stated: for c # 1 and c # n the bump is MINOR iff 2c > n, exactly half
\* gives PATCH, and for every odd n the count c = (n+1)/2 gives MINOR.
C2_Original ==
    \A i \in Bumps :
        /\ (Changed(i) # 1 /\ Changed(i) # Total(i)) =>
              /\ IsMinor(i) <=> 2 * Changed(i) > Total(i)
              /\ 2 * Changed(i) = Total(i) => IsPatch(i)
        /\ (Total(i) % 2 = 1 /\ 2 * Changed(i) = Total(i) + 1) => IsMinor(i)
        /\ (Total(i) % 2 = 1 /\ 2 * Changed(i) < Total(i) + 1) => ~IsMinor(i)

\* C2 amended: for c # 1 and c # n the bump is MINOR iff 2c > n, exactly half
\* gives PATCH, and for every odd n >= 3 the smallest c giving MINOR is (n+1)/2;
\* for n = 1 no c gives MINOR.
C2_StrictMinorThreshold ==
    \A i \in Bumps :
        /\ (Changed(i) # 1 /\ Changed(i) # Total(i)) =>
              /\ IsMinor(i) <=> 2 * Changed(i) > Total(i)
              /\ 2 * Changed(i) = Total(i) => IsPatch(i)
        /\ (Total(i) % 2 = 1 /\ Total(i) >= 3 /\ 2 * Changed(i) = Total(i) + 1) => IsMinor(i)
        /\ (Total(i) % 2 = 1 /\ 2 * Changed(i) < Total(i) + 1) => ~IsMinor(i)
        /\ Total(i) = 1 => ~IsMinor(i)

C2_Witness ==
    /\ \E i \in Bumps : Total(i) = 3 /\ Changed(i) = 2 /\ IsMinor(i)
    /\ objs[1].version = <<1, 1, 0>>

\* C3: an update that changes no field bumps only PATCH, also for an object
\* without fields (n = 0).
C3_Original ==
    \A i \in Bumps : Changed(i) = 0 => IsPatch(i)

(* ------------------------ claims on the deletes ----------------------- *)

\* the object a single or cascading delete request names
Target == resp.ids[1]

CascadeOps == {"delete_object_with_child_locations", "delete_object_with_child_objects"}

\* location d has location a on its ancestor chain
RECURSIVE OnAncestorChain(_, _, _, _)
OnAncestorChain(a, d, locations, k) ==
    /\ d \in DOMAIN locations
    /\ \/ locations[d].parent = a
       \/ /\ k > 0
          /\ OnAncestorChain(a, locations[d].parent, locations, k - 1)

Descendants(a, locations) ==
    {d \in DOMAIN locations \ {RootLocation} :
        OnAncestorChain(a, d, locations, Cardinality(DOMAIN locations))}

LocationBefore(o) == get_location_for_object(before.locs, o)

HadChildLocation(o) ==
    /\ LocationBefore(o) # 0
    /\ \E c \in DOMAIN before.locs : before.locs[c].parent = LocationBefore(o)

\* C4: delete_object is refused (405) exactly when the object's location has a
\* child location; an object whose location has a child gets an error response
\* and the object and its location are still there afterwards.
C4_RefusedIffChildren ==
    resp.op = "delete_object" =>
        /\ resp.status = 405 <=>
              /\ Target \in DOMAIN before.objs
              /\ HadChildLocation(Target)
              /\ \A i \in 1..Len(io) : io[i][1] # "render"
        /\ (Target \in DOMAIN before.objs /\ HadChildLocation(Target)) =>
              /\ resp.status # 200
              /\ Target \in DOMAIN objs
              /\ LocationBefore(Target) \in DOMAIN locs
              /\ locs[LocationBefore(Target)] = before.locs[LocationBefore(Target)]

C4_Witness ==
    /\ resp.op = "delete_object" /\ resp.status = 405
    /\ HadChildLocation(Target) /\ Target \in DOMAIN objs

IsDeletion(event) ==
    \/ event[1] \in {"delete_location", "delete_object"}
    \/ event[1] \in {"delete_object_links", "delete_all_object_references"} /\ event[3] # {}

\* C6: a cascading delete that computes a cascade set issues no deletion to the
\* store (links, references, locations, objects) before it has computed it.
C6_Original ==
    (resp.op \in CascadeOps /\ \E k \in 1..Len(io) : io[k][1] = "get_all_children") =>
        \A i \in 1..Len(io) :
            IsDeletion(io[i]) => \E j \in 1..(i - 1) : io[j][1] = "get_all_children"

\* the snapshot in the order the permutation p gives
Reordered(all_locations, p) == [i \in 1..Len(all_locations) |-> all_locations[p[i]]]

\* C7: get_all_children on the snapshot of the locations with identifier > 1
\* returns exactly the locations that have l on their ancestor chain, each once
\* and never l, whatever the order of the snapshot.
C7_AllDescendants ==
    Idle =>
        \A l \in DOMAIN locs :
            \A p \in Permutations(1..Len(AllLocations(locs))) :
                LET children == get_all_children(l, Reordered(AllLocations(locs), p))
                IN  /\ {children[i].public_id : i \in 1..Len(children)} = Descendants(l, locs)
                    /\ \A i, j \in 1..Len(children) :
                          children[i].public_id = children[j].public_id => i = j
                    /\ \A i \in 1..Len(children) : children[i].public_id # l

\* root -> A -> B and root -> C
C7_Witness ==
    /\ Idle
    /\ \E a, b, c \in DOMAIN locs \ {RootLocation} :
          /\ a # c /\ b # c /\ a # b
          /\ locs[a].parent = RootLocation /\ locs[b].parent = a
          /\ locs[c].parent = RootLocation
          /\ Len(get_all_children(RootLocation, AllLocations(locs))) = 3

RemovedEntities ==
    {<<"location", l>> : l \in DOMAIN before.locs \ DOMAIN locs}
        \cup {<<"object", o>> : o \in DOMAIN before.objs \ DOMAIN objs}

\* C8: when a deletion step of a cascading delete fails after the cascade set
\* was computed, what was deleted stays deleted and the response names the
\* entities already removed.
C8_Original ==
    (/\ resp.op \in CascadeOps
     /\ resp.status # 200
     /\ \E i \in 1..Len(io) : io[i][1] = "get_all_children") =>
        /\ \A i \in 1..Len(io) :
              /\ io[i][1] = "delete_location" => io[i][2] \notin DOMAIN locs
              /\ (io[i][1] = "delete_object" /\ io[i][3] = "deleted") => io[i][2] \notin DOMAIN objs
        /\ resp.named = RemovedEntities

\* the requested objects of a bulk delete that failed: not found, or a call raised
FailedOfBulk ==
    (SeqToSet(resp.ids) \ DOMAIN before.objs)
        \cup {io[i][2] : i \in {k \in 1..Len(io) :
                                  io[k][1] \in {"render", "delete_object"} /\ io[k][3] = "raised"}}

\* C9: a bulk delete of N objects in which exactly one object k fails deletes
\* the other N-1, returns N-1 successes and one failure entry naming k.
C9_Original ==
    (/\ resp.op = "delete_many_objects"
     /\ resp.status # 405
     /\ Len(resp.ids) >= 2
     /\ Cardinality(FailedOfBulk) = 1) =>
        /\ \A id \in SeqToSet(resp.ids) \ FailedOfBulk : id \notin DOMAIN objs
        /\ Len(resp.results) = Len(resp.ids) - 1
        /\ resp.failed = SortedSeq(FailedOfBulk)

Count(s, x) == Cardinality({i \in 1..Len(s) : s[i] = x})

PublicIds(entries) == [i \in 1..Len(entries) |-> entries[i].public_id]

\* C10: a multi-update attempts every requested identifier and puts each in
\* exactly one of the lists results and failed, whatever fails.
C10_Original ==
    (resp.op = "update_object" /\ Len(resp.ids) >= 2) =>
        /\ Cardinality({i \in 1..Len(io) : io[i][1] = "read"}) = Len(resp.ids)
        /\ \A id \in SeqToSet(resp.ids) :
              Count(resp.ids, id)
                  = Count(PublicIds(resp.results), id) + Count(PublicIds(resp.failed), id)

(* ------------------- claims on the structural repair ------------------ *)

\* the type a repair or a search for unstructured objects names
TargetType == resp.ids[1]

\* C11: after update_unstructured_objects(t) completed without error every
\* object of type t holds exactly the field names of t, so that
\* get_unstructured_objects(t) finds nothing; also for a type without fields.
C11_Original ==
    (resp.op = "update_unstructured_objects" /\ resp.status = 200) =>
        \A o \in DOMAIN objs :
            objs[o].type_id = TargetType =>
                /\ DOMAIN objs[o].fields = TypeFieldNames(TargetType)
                /\ ~IsUnstructured(objs[o], TargetType)

\* C12: get_unstructured_objects(t) returns the objects of type t whose set of
\* field names is not the set of field names of t, those only, and changes no object.
C12_FindUnstructured ==
    (resp.op = "get_unstructured_objects" /\ resp.status = 200) =>
        /\ \A o \in DOMAIN before.objs :
              (\E i \in 1..Len(resp.results) : resp.results[i] = o) <=>
                  /\ before.objs[o].type_id = TargetType
                  /\ DOMAIN before.objs[o].fields # TypeFieldNames(TargetType)
        /\ SeqToSet(resp.results) \subseteq DOMAIN before.objs
        /\ objs = before.objs

\* of two objects of a type with two fields one is returned and one is not
C12_Witness ==
    /\ resp.op = "get_unstructured_objects" /\ resp.status = 200
    /\ Cardinality(TypeFieldNames(TargetType)) = 2
    /\ Len(resp.results) = 1
    /\ \E o \in DOMAIN objs : objs[o].type_id = TargetType /\ o \notin SeqToSet(resp.results)

(* ------------- claims on create, update and activation change --------- *)

\* C13: update_object and update_object_state (and a read) leave the set of
\* field names stored for every object as it was; the defaults Render fills in
\* are not written to the store.
C13_Original ==
    resp.op \in {"update_object", "update_object_state", "get_unstructured_objects"} =>
        \A o \in DOMAIN objs \cap DOMAIN before.objs :
            DOMAIN objs[o].fields = DOMAIN before.objs[o].fields

\* the body of the insert request being answered
InsertRequest == io[1][2]

\* the objects the request being answered put into the store
Created == DOMAIN objs \ DOMAIN before.objs

\* C15: an object created by insert_object is stored with version 1.0.0 whatever
\* version the request carried, and active when the request gave no active flag.
C15_InsertedVersion ==
    resp.op = "insert_object" =>
        \A o \in Created :
            /\ objs[o].version = <<1, 0, 0>>
            /\ InsertRequest.active = NoValue => objs[o].active = TRUE

C15_Witness ==
    /\ resp.op = "insert_object" /\ resp.status = 200
    /\ InsertRequest.has_version /\ InsertRequest.version # <<1, 0, 0>>
    /\ InsertRequest.active = NoValue
    /\ Created = {Target} /\ objs[Target].active

MutationInPlace(action, o) ==
    CASE action = "CREATE" -> o \in Created
      [] action = "EDIT"   ->
            /\ o \in DOMAIN objs
            /\ \E k \in 1..Len(io) :
                  io[k][1] = "write" /\ io[k][2] = o /\ io[k][3] = objs[o].version
      [] action = "ACTIVE_CHANGE" ->
            o \in DOMAIN objs /\ objs[o].active # before.objs[o].active
      [] action = "DELETE" -> o \in DOMAIN before.objs \ DOMAIN objs

\* C18: when insert_log raises ManagerInsertError in insert_object, update_object,
\* update_object_state or delete_object, the change of the store stays and the
\* request returns its success result.
C18_LogFailureKeepsMutation ==
    \A i \in 1..Len(io) :
        io[i][1] = "log_raised" =>
            /\ MutationInPlace(io[i][2], io[i][3])
            /\ resp.status = 200
            /\ Len(resp.results) = 1

C18_Witness ==
    /\ resp.op = "insert_object" /\ resp.status = 200
    /\ \E i \in 1..Len(io) : io[i] = <<"log_raised", "CREATE", Target>>
    /\ Target \in Created /\ resp.results = <<Target>>

(* ---------------------- claims on the change log ---------------------- *)

\* the log entries of the request being answered for object o with the action
LogEntries(action, o) == {i \in 1..Len(io) : io[i] = <<"log", action, o>>}

LogRefused(action, o) == \E i \in 1..Len(io) : io[i] = <<"log_raised", action, o>>

\* C17: every object removed by delete_object, delete_many_objects,
\* delete_object_with_child_locations or delete_object_with_child_objects gets
\* exactly one DELETE log entry, unless the log store refused the entry.
C17_Original ==
    resp.op \in {"delete_object", "delete_many_objects"} \cup CascadeOps =>
        \A o \in DOMAIN before.objs \ DOMAIN objs :
            ~LogRefused("DELETE", o) => Cardinality(LogEntries("DELETE", o)) = 1

(* ------------------ claims on the order of an update ------------------ *)

IsLog(event) == event[1] \in {"log", "log_raised"}

\* C19: in update_object the steps of one object come in the order read, diff
\* and version, write, EDIT log; the log entry directly follows the successful
\* write of the same object, and a failed write is followed by no log entry.
C19_StrictOrder ==
    resp.op = "update_object" =>
        \A i \in 1..Len(io) :
            /\ io[i][1] = "diff" => i > 1 /\ io[i - 1] = <<"read", io[i][2]>>
            /\ io[i][1] \in {"write", "write_raised"} =>
                  i > 1 /\ io[i - 1][1] = "diff" /\ io[i - 1][2] = io[i][2]
            /\ IsLog(io[i]) =>
                  i > 1 /\ io[i - 1][1] = "write" /\ io[i - 1][2] = io[i][3]
            /\ io[i][1] = "write" => i < Len(io) /\ IsLog(io[i + 1])
            /\ io[i][1] = "write_raised" => i = Len(io) \/ io[i + 1][1] = "read"

\* the first object is written and logged, the write of the second one fails
C19_Witness ==
    /\ resp.op = "update_object" /\ Len(resp.ids) = 2
    /\ Len(io) = 7
    /\ io[1][1] = "read" /\ io[2][1] = "diff" /\ io[3][1] = "write" /\ io[4][1] = "log"
    /\ io[5][1] = "read" /\ io[6][1] = "diff" /\ io[7][1] = "write_raised"

(* -------------------- claims on backward references ------------------- *)

\* object o of a type with a reference field that allows the type of x holds
\* the identifier of x, as a number or as a string, in that field
ReferencesObject(o, x) ==
    \E name \in TypeFieldNames(objs[o].type_id) \cap DOMAIN objs[o].fields :
        /\ objs[x].type_id \in RefTypes(objs[o].type_id, name)
        /\ objs[o].fields[name] \in {IntValue(x), StrValue(x)}

\* C14: get_object_references(X) includes every object that holds X's
\* identifier, as number or string, in a reference field of its type whose
\* allowed types include X's type, also when the type has several such fields.
C14_Original ==
    (resp.op = "get_object_references" /\ resp.status = 200) =>
        \A o \in DOMAIN objs :
            ReferencesObject(o, Target) => o \in SeqToSet(resp.results)

(* ------------------- claims on concurrent updates --------------------- *)

Written(w) == workers[w].pc = "written"

\* the worker whose write is the latest in the store
WroteLast(w) ==
    /\ Written(w)
    /\ \A i \in (workers[w].wrote_at + 1)..Len(io) : io[i][1] # "write"

\* C20: two update_object requests that read the same stored object both have
\* their write accepted, without a staleness check; the stored object is what
\* the later request wrote.
C20_LastWriterWins ==
    /\ \A i \in 1..Len(io) : io[i][1] # "write_raised"
    /\ \A w \in Workers : workers[w].pc \in {"idle", "read", "written"}
    /\ \A w \in Workers :
          WroteLast(w) =>
              /\ objs[1] = workers[w].new_data
              /\ io[workers[w].wrote_at] = <<"write", 1, workers[w].new_data.version>>

\* both requests read version 1.0.0, both wrote, and both computed 1.0.1
C20_Witness ==
    /\ Written(1) /\ Written(2)
    /\ workers[1].current = workers[2].current
    /\ workers[1].fields # workers[2].fields
    /\ workers[1].new_data.version = workers[2].new_data.version
    /\ workers[1].wrote_at < workers[2].wrote_at
    /\ objs[1] = workers[2].new_data /\ objs[1] # workers[1].new_data

(* ------------------ claims on the store after deletes ----------------- *)

\* C21: after the object deletes every remaining object link has a primary and a
\* secondary object that both exist, the links of the child objects a cascade
\* removed included.
C21_Original ==
    \A l \in links : l.primary \in DOMAIN objs /\ l.secondary \in DOMAIN objs

\* C22: in delete_object, delete_object_with_child_locations and
\* delete_object_with_child_objects a location is deleted iff the object it is
\* bound to is deleted by the same request.
C22_Original ==
    resp.op \in {"delete_object"} \cup CascadeOps =>
        \A l \in DOMAIN before.locs \ {RootLocation} :
            before.locs[l].object_id \in DOMAIN before.objs =>
                (l \notin DOMAIN locs <=> before.locs[l].object_id \notin DOMAIN objs)

\* C23: the locations stay a forest rooted at location 1: the root location is
\* never deleted and the parent of every other location is a location.
C23_LocationForest ==
    /\ RootLocation \in DOMAIN locs
    /\ locs[RootLocation] = [parent |-> 0, object_id |-> 0]
    /\ \A l \in DOMAIN locs \ {RootLocation} :
          /\ locs[l].parent \in DOMAIN locs
          /\ locs[l].parent # l

\* a cascade removed a location together with its children and grandchildren
C23_Witness ==
    /\ resp.op \in CascadeOps /\ resp.status = 200
    /\ \E d \in Descendants(LocationBefore(Target), before.locs) :
          before.locs[d].parent # LocationBefore(Target)
    /\ Descendants(LocationBefore(Target), before.locs) \cap DOMAIN locs = {}

\* the store is as the request found it
StoreUnchanged ==
    /\ objs = before.objs /\ locs = before.locs
    /\ links = before.links /\ refs = before.refs

\* C26: delete_many_objects answers 405 when one of the requested objects has a
\* location, and then no object, link or reference has been removed.
C26_BulkRefusedBeforeDeletion ==
    resp.op = "delete_many_objects" =>
        /\ (\E o \in SeqToSet(resp.ids) \cap DOMAIN before.objs : LocationBefore(o) # 0)
              => resp.status = 405
        /\ resp.status = 405 => StoreUnchanged /\ \A i \in 1..Len(io) : ~IsDeletion(io[i])

\* a located object and a linked object without location are requested together
C26_Witness ==
    /\ resp.op = "delete_many_objects" /\ resp.status = 405
    /\ \E o, q \in SeqToSet(resp.ids) \cap DOMAIN objs :
          /\ LocationBefore(o) # 0
          /\ LocationBefore(q) = 0 /\ LinksOf(links, q) # {} /\ q < o

\* C27: when delete_object is refused because the object's location has child
\* locations, no link and no reference of the object has been removed.
C27_Original ==
    (resp.op = "delete_object" /\ resp.status = 405) => StoreUnchanged

\* C28: when delete_object fails at the deletion of the object, the location
\* the object had before the request is still there.
C28_Original ==
    (/\ resp.op = "delete_object"
     /\ \E i \in 1..Len(io) : io[i] = <<"delete_object", Target, "raised">>
     /\ LocationBefore(Target) # 0) =>
        /\ LocationBefore(Target) \in DOMAIN locs
        /\ Target \in DOMAIN objs

(* ---------------- claim on the version across updates ----------------- *)

\* version a precedes version b in (MAJOR, MINOR, PATCH) order
VersionLess(a, b) ==
    \/ a[1] < b[1]
    \/ a[1] = b[1] /\ a[2] < b[2]
    \/ a[1] = b[1] /\ a[2] = b[2] /\ a[3] < b[3]

\* C29: every update_object that writes an object stores a version strictly
\* above the version stored before the request, also when the request carries a
\* 'version' of its own; update_object_state leaves the version as it was.
C29_Original ==
    /\ resp.op = "update_object" =>
          \A i \in 1..Len(io) :
              io[i][1] = "write" =>
                  /\ VersionLess(before.objs[io[i][2]].version, io[i][3])
                  /\ VersionLess(before.objs[io[i][2]].version, objs[io[i][2]].version)
    /\ resp.op = "update_object_state" =>
          \A o \in DOMAIN objs \cap DOMAIN before.objs :
              objs[o].version = before.objs[o].version

(* ------------------- claim on concurrent inserts ---------------------- *)

\* the calls of dbm.insert that stored a document
Inserts == {i \in 1..Len(io) : io[i][1] = "insert"}

\* C24: under every interleaving of insert_object requests, with or without an
\* identifier in the body, no two stored objects share an identifier: an insert
\* of an identifier that is taken fails with 400 and leaves the stored object
\* as it is.
C24_UniqueIdentifiers ==
    /\ \A i, j \in Inserts : io[i][2] = io[j][2] => i = j
    /\ \A i \in Inserts : io[i][2] \in DOMAIN objs /\ objs[io[i][2]] = io[i][3]
    /\ \A i \in 1..Len(io) :
          io[i][1] = "insert_raised" =>
              /\ io[i][2] \in DOMAIN objs
              /\ \E j \in Inserts : j < i /\ io[j][2] = io[i][2]
    /\ \A w \in Workers :
          /\ workers[w].pc = "inserted" => workers[w].public_id \in DOMAIN objs
          /\ workers[w].pc = "rejected" =>
                workers[w].status = 400 /\ workers[w].public_id \in DOMAIN objs

\* both workers read the same next identifier; one insert stored its document,
\* the other one, with other fields, was refused
C24_Witness ==
    /\ \E i, j \in 1..Len(io) :
          /\ i # j /\ io[i][1] = "get_new_id" /\ io[j][1] = "get_new_id"
          /\ io[i][2] = io[j][2]
          /\ \E k \in 1..Len(io) : io[k] = <<"insert_raised", io[i][2]>>
    /\ \E w, v \in Workers :
          /\ workers[w].pc = "inserted" /\ workers[v].pc = "rejected"
          /\ workers[w].public_id = workers[v].public_id
          /\ workers[w].fields # workers[v].fields
          /\ objs[workers[w].public_id].fields = workers[w].fields

(* ---------------------- claim on user accounts ------------------------ *)

\* C25: UserManager.delete never removes the admin account: delete(1) raises
\* ManagerDeleteError without a call to the store; for another id it returns
\* the deleted user only when exactly that user was removed, and it raises
\* ManagerDeleteError when the store reports no deleted document.
C25_AdminNeverDeleted ==
    /\ 1 \in DOMAIN users
    /\ resp.op = "user_delete" =>
          /\ Target = 1 =>
                resp.raised = "ManagerDeleteError" /\ io = <<>> /\ users = before.users
          /\ resp.raised = "none" =>
                /\ Target \in DOMAIN before.users \ {1}
                /\ resp.results = <<before.users[Target]>>
                /\ users = Restrict(before.users, DOMAIN before.users \ {Target})
                /\ <<"_delete", Target, 1>> \in SeqToSet(io)
          /\ <<"_delete", Target, 0>> \in SeqToSet(io) => resp.raised = "ManagerDeleteError"

\* delete(1) was refused while other accounts are stored
C25_Witness ==
    /\ resp.op = "user_delete" /\ Target = 1 /\ resp.raised = "ManagerDeleteError"
    /\ DOMAIN users # {1}
    /\ users = before.users

(* -------------------- claim on the check routine ---------------------- *)

\* C30: checker ends with status FINISHED iff the database is empty, or every
\* framework, user-management and export-job collection validates and no
\* update newer than the current version exists; else with HAS_UPDATES. One
\* collection that is not valid, wherever it is in the validation order, gives
\* HAS_UPDATES, and the status after checker is never NOT or RUNNING.
C30_Original ==
    resp.op = "checker" =>
        /\ check_status \in {"FINISHED", "HAS_UPDATES"}
        /\ check_status = "FINISHED" <=>
              (resp.empty \/ (resp.valid = Collections /\ resp.updater = "current"))
        /\ (~resp.empty /\ resp.valid # Collections) => check_status = "HAS_UPDATES"

====
